---- MODULE Spec2Model ----
(***************************************************************************)
(* Model of the CSV importer (importers/CSVImporter.py) and of the profile *)
(* data of config.py.                                                      *)
(*                                                                         *)
(* Text is a sequence of one-character strings, so that substring search,  *)
(* split, strip and the numeric regular expression are computed and not    *)
(* assumed.  A Python Optional is None == <<>> or Some(x) == <<x>>, which   *)
(* keeps the empty string (Some(<<>>)) apart from None.  A call's outcome   *)
(* is a record [exc, val]: exc = "none" and the returned value, or the name *)
(* of the exception that propagates.  Python's 0-based column indexes are   *)
(* 1-based here.                                                           *)
(***************************************************************************)
EXTENDS Integers, Sequences, FiniteSets, TLC

VARIABLES
    pc,         \* "idle" / "call" before the operation, "done" or "raised" after
    call,       \* the operation that ran, with the arguments of a function call
    ret,        \* the outcome of the operation
    config,     \* Importer.config: role -> column name or index
    file,       \* the candidate file: name, mimetype, lines, sniffed
    iconfig,    \* extract: the resolved mapping
    has_header, \* extract: whether a header was detected
    first_row,  \* extract: first processed data row
    last_row,   \* extract: last processed data row
    index,      \* extract: the loop's line counter
    account,    \* extract: account label of the last processed row
    entries     \* extract: the transactions in file order, before the reversal

vars == <<pc, call, ret, config, file, iconfig, has_header,
          first_row, last_row, index, account, entries>>

\* ------------------------------------------------------------------ bounds
\* Longest file body (rows after the header) of the multi-row files.
MaxRows == 3
\* Longest text handed to the keyword resolver on its own.
MaxTextLen == 2

\* ------------------------------------------------------- Python-level values
None == <<>>
Some(x) == <<x>>
The(o) == o[1]
\* Truth value of an Optional[str]: None and "" are false.
Truthy(o) == o # None /\ The(o) # <<>>

Ok(v) == [exc |-> "none", val |-> v]
Raise(e) == [exc |-> e, val |-> <<>>]

\* class Drcr
DEBIT == "[DEBIT]"
CREDIT == "[CREDIT]"
UNCERTAINTY == "[UNCERTAINTY]"
Drcr == {DEBIT, CREDIT, UNCERTAINTY}

\* class Col, the roles the importer reads
Col == {"DATE", "TXN_DATE", "TXN_TIME", "PAYEE", "NARRATION", "AMOUNT",
        "AMOUNT_DEBIT", "AMOUNT_CREDIT", "STATUS", "TYPE", "BALANCE",
        "DRCR", "ACCOUNT"}

\* ------------------------------------------------------------- text helpers
\* A definition used more than once is handed on as an operator argument, so
\* that it is computed once.
Digits == {"0", "1", "2", "3", "4", "5", "6", "7", "8", "9"}
IsDigit(c) == c \in Digits
DigitVal(c) ==
    CASE c = "0" -> 0 [] c = "1" -> 1 [] c = "2" -> 2 [] c = "3" -> 3
      [] c = "4" -> 4 [] c = "5" -> 5 [] c = "6" -> 6 [] c = "7" -> 7
      [] c = "8" -> 8 [] c = "9" -> 9

\* The least element of a set of integers, -1 for the empty set.
FirstOf(hits) ==
    IF hits = {} THEN -1 ELSE CHOOSE i \in hits : \A j \in hits : i <= j

\* str.startswith
StartsWith(s, p) == Len(p) <= Len(s) /\ SubSeq(s, 1, Len(p)) = p

\* str.find: the lowest 0-based index at which kw occurs in s, or -1.
Find(s, kw) ==
    FirstOf({i \in 0..(Len(s) - Len(kw)) : SubSeq(s, i + 1, i + Len(kw)) = kw})

\* str.split(sep) for a one-character separator: empty parts are kept.
RECURSIVE SplitAt(_, _, _)
Split(s, sep) == SplitAt(s, sep, FirstOf({i \in 1..Len(s) : s[i] = sep}))
SplitAt(s, sep, i) ==
    IF i = -1 THEN <<s>>
    ELSE <<SubSeq(s, 1, i - 1)>> \o Split(SubSeq(s, i + 1, Len(s)), sep)

\* str.strip: leading and trailing blanks removed.
RECURSIVE Strip(_)
Strip(s) ==
    IF s = <<>> THEN s
    ELSE IF Head(s) = " " THEN Strip(Tail(s))
    ELSE IF s[Len(s)] = " " THEN Strip(SubSeq(s, 1, Len(s) - 1))
    ELSE s

\* strip_blank: every cell of every row is stripped.
strip_blank(contents) ==
    [i \in 1..Len(contents) |->
        [j \in 1..Len(contents[i]) |-> Strip(contents[i][j])]]

\* re.search(pattern, text) for a pattern of literal alternatives joined by "|".
AnyFound(alts, text) == \E a \in DOMAIN alts : Find(text, alts[a]) # -1
ReSearch(pattern, text) == AnyFound(Split(pattern, "|"), text)

\* --------------------------------------------------------------- decimals
\* A Decimal is m / 10^e.  Equality of Decimals is equality of value.
ZERO == [m |-> 0, e |-> 0]
DecEq(a, b) == a.m * (10 ^ b.e) = b.m * (10 ^ a.e)
DecNeg(d) == [m |-> 0 - d.m, e |-> d.e]

RECURSIVE DigitsToInt(_)
DigitsToInt(ds) ==
    IF ds = <<>> THEN 0
    ELSE 10 * DigitsToInt(SubSeq(ds, 1, Len(ds) - 1)) + DigitVal(ds[Len(ds)])

\* beancount's D() on a token digits[.digits]
D(tok) ==
    [m |-> DigitsToInt(SelectSeq(tok, IsDigit)),
     e |-> IF \E i \in 1..Len(tok) : tok[i] = "."
           THEN Len(tok) - (CHOOSE i \in 1..Len(tok) : tok[i] = ".")
           ELSE 0]

\* First position at or after i that holds no digit.
RECURSIVE DigitRunEnd(_, _)
DigitRunEnd(s, i) ==
    IF i <= Len(s) /\ IsDigit(s[i]) THEN DigitRunEnd(s, i + 1) ELSE i

\* The end of a match of \d+\.?\d* whose leading digits end before j.
MatchEnd(s, j) ==
    IF j <= Len(s) /\ s[j] = "." THEN DigitRunEnd(s, j + 1) ELSE j

\* re.findall(r"\d+\.?\d*", s): leftmost, greedy, non-overlapping matches.
RECURSIVE FindAllNumbers(_, _)
MatchFrom(s, i, k) == <<SubSeq(s, i, k - 1)>> \o FindAllNumbers(s, k)
FindAllNumbers(s, i) ==
    IF i > Len(s) THEN <<>>
    ELSE IF IsDigit(s[i]) THEN MatchFrom(s, i, MatchEnd(s, DigitRunEnd(s, i)))
    ELSE FindAllNumbers(s, i + 1)

\* "assert len(numbers) == 1; return D(numbers[0])"
TheNumber(numbers) ==
    IF Len(numbers) # 1 THEN Raise("AssertionError") ELSE Ok(Some(D(numbers[1])))

\* cast_to_decimal(amount), amount an Optional[str]
cast_to_decimal(amount) ==
    IF amount = None THEN Ok(None)
    ELSE TheNumber(FindAllNumbers(SelectSeq(The(amount), LAMBDA c : c # ","), 1))

\* ------------------------------------------------------------ get_amounts
\* The cells that become debit and credit.
DebitCell(ic, row, drcr) ==
    IF "AMOUNT" \in DOMAIN ic
    THEN (IF drcr = CREDIT THEN None ELSE Some(row[ic["AMOUNT"]]))
    ELSE IF "AMOUNT_DEBIT" \in DOMAIN ic THEN Some(row[ic["AMOUNT_DEBIT"]])
    ELSE None
CreditCell(ic, row, drcr) ==
    IF "AMOUNT" \in DOMAIN ic
    THEN (IF drcr = CREDIT THEN Some(row[ic["AMOUNT"]]) ELSE None)
    ELSE IF "AMOUNT_CREDIT" \in DOMAIN ic THEN Some(row[ic["AMOUNT_CREDIT"]])
    ELSE None

\* "x is not None and cast_to_decimal(x) == ZERO", xc being cast_to_decimal(x).
IsZero(x, xc) == x # None /\ xc.exc = "none" /\ DecEq(The(xc.val), ZERO)

\* SignedAmounts with a slip: the debit keeps its sign.
SignedAmountsUnsigned(debit, credit, dc, cc, allow_zero_amounts) ==
    IF credit # None /\ cc.exc # "none" THEN Raise("AssertionError")
    ELSE IF IsZero(credit, cc) /\ debit # None /\ dc.exc # "none"
         THEN Raise("AssertionError")
    ELSE IF ~allow_zero_amounts /\ IsZero(credit, cc) /\ IsZero(debit, dc)
         THEN Ok(<<None, None>>)
    ELSE IF Truthy(debit) /\ dc.exc # "none" THEN Raise("AssertionError")
    ELSE IF Truthy(credit) /\ cc.exc # "none" THEN Raise("AssertionError")
    ELSE Ok(<<IF Truthy(debit) THEN dc.val ELSE None,
              IF Truthy(credit) THEN cc.val ELSE None>>)

\* The zero test and the return statement; dc and cc are cast_to_decimal of
\* debit and credit.  The test reads credit first and debit only when credit
\* is zero.
SignedAmounts(debit, credit, dc, cc, allow_zero_amounts) ==
    IF credit # None /\ cc.exc # "none" THEN Raise("AssertionError")
    ELSE IF IsZero(credit, cc) /\ debit # None /\ dc.exc # "none"
         THEN Raise("AssertionError")
    ELSE IF ~allow_zero_amounts /\ IsZero(credit, cc) /\ IsZero(debit, dc)
         THEN Ok(<<None, None>>)
    ELSE IF Truthy(debit) /\ dc.exc # "none" THEN Raise("AssertionError")
    ELSE IF Truthy(credit) /\ cc.exc # "none" THEN Raise("AssertionError")
    ELSE Ok(<<IF Truthy(debit) THEN Some(DecNeg(The(dc.val))) ELSE None,
              IF Truthy(credit) THEN cc.val ELSE None>>)

AmountsOf(debit, credit, allow_zero_amounts) ==
    SignedAmounts(debit, credit, cast_to_decimal(debit), cast_to_decimal(credit),
                  allow_zero_amounts)

get_amounts(ic, row, drcr, allow_zero_amounts) ==
    AmountsOf(DebitCell(ic, row, drcr), CreditCell(ic, row, drcr),
              allow_zero_amounts)

\* -------------------------------------------------------- get_DRCR_status
\* d[key]: a dict is a function on its keys; a miss raises KeyError.
DictGet(d, key) == IF key \in DOMAIN d THEN Ok(d[key]) ELSE Raise("KeyError")

\* DRCRLookup with a slip: a marker the table does not know falls through to
\* the status column instead of ending the lookup.
DRCRLookupFallsThrough(ic, row, dict) ==
    IF "DRCR" \in DOMAIN ic /\ row[ic["DRCR"]] \in DOMAIN dict
    THEN DictGet(dict, row[ic["DRCR"]])
    ELSE IF "STATUS" \in DOMAIN ic THEN DictGet(dict, row[ic["STATUS"]])
    ELSE IF "AMOUNT_CREDIT" \in DOMAIN ic /\ row[ic["AMOUNT_CREDIT"]] # <<>>
    THEN Ok(CREDIT)
    ELSE IF "AMOUNT_DEBIT" \in DOMAIN ic /\ row[ic["AMOUNT_DEBIT"]] # <<>>
    THEN Ok(DEBIT)
    ELSE Ok(UNCERTAINTY)

\* The body of the try statement.
DRCRLookup(ic, row, dict) ==
    IF "DRCR" \in DOMAIN ic /\ Len(row[ic["DRCR"]]) # 0
    THEN DictGet(dict, row[ic["DRCR"]])
    ELSE IF "STATUS" \in DOMAIN ic THEN DictGet(dict, row[ic["STATUS"]])
    ELSE IF "AMOUNT_CREDIT" \in DOMAIN ic /\ row[ic["AMOUNT_CREDIT"]] # <<>>
    THEN Ok(CREDIT)
    ELSE IF "AMOUNT_DEBIT" \in DOMAIN ic /\ row[ic["AMOUNT_DEBIT"]] # <<>>
    THEN Ok(DEBIT)
    ELSE Ok(UNCERTAINTY)

\* "except KeyError: return Drcr.UNCERTAINTY"
ExceptKeyError(body) == IF body.exc = "KeyError" THEN Ok(UNCERTAINTY) ELSE body

get_DRCR_status(ic, row, dict) == ExceptKeyError(DRCRLookup(ic, row, dict))

\* -------------------------------------------------------- mapping_account
\* A keyword table is the dict in insertion order: a sequence of <<key, account>>.
DEFAULT == <<"D", "E", "F", "A", "U", "L", "T">>
Keys(table) == {table[i][1] : i \in 1..Len(table)}
TableGet(table, key) ==
    table[CHOOSE k \in 1..Len(table) : table[k][1] = key][2]

\* KeywordLoop with a slip: no break, so the last matching key wins.
RECURSIVE KeywordLoopNoBreak(_, _, _, _)
KeywordLoopNoBreak(table, keyword, i, account_name) ==
    IF i > Len(table) THEN account_name
    ELSE IF table[i][1] = DEFAULT
         THEN KeywordLoopNoBreak(table, keyword, i + 1, account_name)
    ELSE IF ReSearch(table[i][1], keyword)
         THEN KeywordLoopNoBreak(table, keyword, i + 1, table[i][2])
    ELSE KeywordLoopNoBreak(table, keyword, i + 1, account_name)

\* The for loop of mapping_account from entry i on.
RECURSIVE KeywordLoop(_, _, _, _)
KeywordLoop(table, keyword, i, account_name) ==
    IF i > Len(table) THEN account_name
    ELSE IF table[i][1] = DEFAULT
         THEN KeywordLoop(table, keyword, i + 1, account_name)
    ELSE IF ReSearch(table[i][1], keyword) THEN table[i][2]
    ELSE KeywordLoop(table, keyword, i + 1, account_name)

\* The message of the first raise adds a str and a bound method, so the
\* exception that leaves the function is a TypeError.
mapping_account(table, keyword) ==
    IF DEFAULT \notin Keys(table) THEN Raise("TypeError")
    ELSE Ok(KeywordLoop(table, keyword, 1, TableGet(table, DEFAULT)))

\* ------------------------------------------------ the profile of config.py
\* Chinese keywords are written with one-letter stand-ins: "o" for 支出, "i"
\* for 收入, "y" for 已, "q" for 其他, "r" for 退款.
currency == "CNY"
drcr_dict ==
    (<<"o">> :> DEBIT) @@ (<<"i">> :> CREDIT) @@ (<<"y", "o">> :> DEBIT)
    @@ (<<"y", "i">> :> CREDIT) @@ (<<"q">> :> CREDIT)
refund_keyword == <<"r">>
account_map ==
    [assets |-> << <<DEFAULT, "Unknown">>,
                   <<(<<"0", "|", "s">>), "Liabilities:CreditCard:SFFB:0000">>,
                   <<(<<"y">>), "Assets:Alipay:YuEBao">>,
                   <<(<<"l">>), "Assets:Wechat:MiniFund">> >>,
     debit  |-> << <<DEFAULT, "Expenses:Unknown">>,
                   <<(<<"f", "|", "t">>), "Expenses:Food:Snacks">>,
                   <<(<<"k">>), "Expenses:Transport:Taxi">> >>,
     credit |-> << <<DEFAULT, "Income:Unknown">>,
                   <<(<<"y">>), "Income:MoneyFund:Alipay:YuEBao">>,
                   <<(<<"z">>), "Income:TransferIn">>,
                   <<(<<"r">>), "Income:Unknown">> >>]
file_name_prefix == <<"a", "l">>
skip_lines == 1

\* ------------------------------------------------------- normalize_config
\* A column-mapping value is a name (a str) or an index (an int).
StrField(name) == [t |-> "str", name |-> name, idx |-> 0]
IntField(i) == [t |-> "int", name |-> <<>>, idx |-> i]

\* The dict comprehension over enumerate(header): for a repeated name the
\* last column wins.
FieldMap(header) ==
    [name \in {header[i] : i \in 1..Len(header)} |->
        CHOOSE i \in 1..Len(header) :
            header[i] = name /\ \A j \in 1..Len(header) : header[j] = name => j <= i]

\* The loop that fills index_config; field_map[field] raises KeyError.
IndexConfig(cfg, field_map) ==
    IF \E ft \in DOMAIN cfg : cfg[ft].t = "str" /\ cfg[ft].name \notin DOMAIN field_map
    THEN Raise("KeyError")
    ELSE Ok(<<[ft \in DOMAIN cfg |->
                 IF cfg[ft].t = "str" THEN field_map[cfg[ft].name] ELSE cfg[ft].idx],
              TRUE>>)

\* The header line of the stripped head, its names stripped once more.
HeaderNames(head) == [i \in 1..Len(head[1]) |-> Strip(head[1][i])]

\* head is the file's contents as its lines; sniffed is what
\* csv.Sniffer().has_header answers for the lines left after the skip.
normalize_config(cfg, head, sniffed, skip) ==
    IF sniffed
    THEN IndexConfig(cfg, FieldMap(HeaderNames(
             strip_blank(SubSeq(head, skip + 1, Len(head))))))
    ELSE IF \E ft \in DOMAIN cfg : cfg[ft].t # "int" THEN Raise("ValueError")
    ELSE Ok(<<[ft \in DOMAIN cfg |-> cfg[ft].idx], FALSE>>)

\* os.path.basename
LastOf(parts) == parts[Len(parts)]
Basename(name) == LastOf(Split(name, "/"))

\* "return len(iconfig) == len(self.config)", nc being normalize_config's outcome
SameLength(cfg, nc) ==
    IF nc.exc # "none" THEN Raise(nc.exc)
    ELSE Ok(Cardinality(DOMAIN nc.val[1]) = Cardinality(DOMAIN cfg))

\* Importer.identify
identify(cfg, f) ==
    IF f.mimetype # "text/csv" THEN Ok(FALSE)
    ELSE IF ~StartsWith(Basename(f.name), file_name_prefix) THEN Ok(FALSE)
    ELSE SameLength(cfg, normalize_config(cfg, f.lines, f.sniffed, skip_lines))

\* ---------------------------------------------------------------- extract
\* get(row, ftype) of extract
Get(ic, row, ftype) == IF ftype \in DOMAIN ic THEN Some(row[ic[ftype]]) ELSE None

\* parse_date_liberally (beancount): a date cell is the day's ordinal written
\* in digits; anything else is no date.
parse_date_liberally(cell) ==
    IF cell = None THEN Raise("TypeError")
    ELSE IF The(cell) # <<>> /\ \A i \in 1..Len(The(cell)) : IsDigit(The(cell)[i])
         THEN Ok(DigitsToInt(The(cell)))
    ELSE Raise("ValueError")

\* Amount(number, currency) and its unary minus
Amount(number) == [number |-> number, currency |-> currency]
AmountNeg(units) == [units EXCEPT !.number = DecNeg(@)]
\* data.Posting(account, units, None, None, None, None)
Posting(acct, units) == [account |-> acct, units |-> units]

\* TransferPair with a slip: the amount is not negated.
TransferPairPlain(primary_account, secondary_account, units) ==
    IF primary_account.exc # "none" THEN Raise(primary_account.exc)
    ELSE Ok(<<Posting(primary_account.val, Some(units)),
              Posting(secondary_account.val, None)>>)

\* The two postings of a transfer; primary and secondary are the outcomes of
\* mapping_account for accounts[1] and accounts[0].
TransferPair(primary_account, secondary_account, units) ==
    IF primary_account.exc # "none" THEN Raise(primary_account.exc)
    ELSE Ok(<<Posting(primary_account.val, Some(AmountNeg(units))),
              Posting(secondary_account.val, None)>>)

\* The branch taken once the label is split.
TransferSplit(accounts, acct, units) ==
    IF Truthy(acct) /\ Len(accounts) = 2
    THEN TransferPair(mapping_account(account_map.assets, accounts[2]),
                      mapping_account(account_map.assets, accounts[1]), units)
    ELSE IF DEFAULT \notin Keys(account_map.assets) THEN Raise("KeyError")
    ELSE Ok(<<Posting(TableGet(account_map.assets, DEFAULT), Some(units))>>)

\* The UNCERTAINTY branch of the posting loop for one amount.
TransferPostings(acct, units) ==
    TransferSplit(IF Truthy(acct) THEN Split(The(acct), "-") ELSE <<>>, acct, units)

\* CounterTable with a slip: the refund keyword is not looked at.
CounterTableNoRefund(drcr, payee_narration) ==
    IF drcr = CREDIT THEN "credit" ELSE "debit"

\* The key of self.account_map the counter-account is searched in.
CounterTable(drcr, payee_narration) ==
    IF drcr = CREDIT
       /\ ~(refund_keyword # <<>> /\ Find(payee_narration, refund_keyword) # -1)
    THEN "credit" ELSE "debit"

\* The counter-account and the two postings of a DEBIT or CREDIT amount.
CounterPostings(drcr, primary_account, units, payee_narration, tx_type) ==
    Ok(<<Posting(primary_account.val, Some(units)),
         Posting(mapping_account(account_map[CounterTable(drcr, payee_narration)],
                                 payee_narration \o tx_type).val,
                 None)>>)

DirectedPair(drcr, primary_account, units, payee, narration, tx_type) ==
    IF primary_account.exc # "none" THEN Raise(primary_account.exc)
    ELSE IF payee = None \/ narration = None THEN Raise("TypeError")
    ELSE IF DEFAULT \notin Keys(account_map[CounterTable(drcr, The(payee) \o The(narration))])
         THEN Raise("TypeError")
    ELSE CounterPostings(drcr, primary_account, units,
                         The(payee) \o The(narration), tx_type)

\* The DEBIT / CREDIT branch of the posting loop for one amount.  re.search on
\* a None account label raises TypeError at the first keyword.
DirectedPostings(drcr, acct, units, payee, narration, tx_type) ==
    IF acct = None /\ Keys(account_map.assets) # {DEFAULT} THEN Raise("TypeError")
    ELSE DirectedPair(drcr,
                      mapping_account(account_map.assets,
                                      IF acct = None THEN <<>> ELSE The(acct)),
                      units, payee, narration, tx_type)

\* The postings one amount adds.
AmountPostings(units, drcr, acct, payee, narration, tx_type) ==
    IF drcr = UNCERTAINTY THEN TransferPostings(acct, units)
    ELSE DirectedPostings(drcr, acct, units, payee, narration, tx_type)

Both(these, more) ==
    IF these.exc # "none" THEN these
    ELSE IF more.exc # "none" THEN more
    ELSE Ok(these.val \o more.val)

\* "for amount in [amount_debit, amount_credit]": the postings of one row.
RECURSIVE RowPostings(_, _, _, _, _, _)
RowPostings(amounts, drcr, acct, payee, narration, tx_type) ==
    IF amounts = <<>> THEN Ok(<<>>)
    ELSE IF Head(amounts) = None
         THEN RowPostings(Tail(amounts), drcr, acct, payee, narration, tx_type)
    ELSE Both(AmountPostings(Amount(The(Head(amounts))), drcr, acct, payee,
                             narration, tx_type),
              RowPostings(Tail(amounts), drcr, acct, payee, narration, tx_type))

\* "x or ''" and "if x: x = x.strip()"
OrEmpty(cell) == IF Truthy(cell) THEN The(cell) ELSE <<>>
Stripped(cell) == IF Truthy(cell) THEN Some(Strip(The(cell))) ELSE cell

\* The locals that live across rows, after a data row was read.
RowSeen(ic, row, idx, st) ==
    [st EXCEPT !.first_row = IF @ = None THEN Some(row) ELSE @,
               !.last_row = Some(row),
               !.index = idx,
               !.account = Get(ic, row, "ACCOUNT")]

\* data.Transaction(meta, date, FLAG, payee, narration, ...) with its postings.
\* The mappings of this model name neither TXN_DATE nor TXN_TIME, so meta
\* holds the file name and the line alone.
Transaction(f, idx, date, payee, narration, postings) ==
    [meta |-> [filename |-> f.name, lineno |-> idx], date |-> date,
     payee |-> payee, narration |-> narration, postings |-> postings]

RowAppend(seen, f, idx, date, payee, narration, postings) ==
    IF postings.exc # "none" THEN [seen EXCEPT !.exc = postings.exc]
    ELSE [seen EXCEPT !.entries =
            Append(@, Transaction(f, idx, date, payee, narration, postings.val))]

\* The row once date, direction and amounts are known.
RowBuild(ic, f, row, idx, seen, date, drcr, amounts, payee, narration) ==
    IF date.exc # "none" THEN [seen EXCEPT !.exc = date.exc]
    ELSE IF amounts.exc # "none" THEN [seen EXCEPT !.exc = amounts.exc]
    ELSE IF amounts.val[1] = None /\ amounts.val[2] = None THEN seen
    ELSE RowAppend(seen, f, idx, date.val, payee, narration,
                   RowPostings(amounts.val, drcr, seen.account, payee, narration,
                               OrEmpty(Get(ic, row, "TYPE"))))

RowClassified(ic, f, row, idx, seen, drcr) ==
    RowBuild(ic, f, row, idx, seen, parse_date_liberally(Get(ic, row, "DATE")),
             drcr, get_amounts(ic, row, drcr, FALSE),
             Stripped(Get(ic, row, "PAYEE")), Stripped(Get(ic, row, "NARRATION")))

\* One pass of the row loop over a data row.
ExtractRow(ic, f, row, idx, st) ==
    RowClassified(ic, f, row, idx, RowSeen(ic, row, idx, st),
                  get_DRCR_status(ic, row, drcr_dict).val)

Dashes == <<"-", "-", "-", "-", "-", "-", "-", "-", "-", "-", "-">>

\* "for index, row in enumerate(reader, 1)" from row idx + 1 of reader on.
RECURSIVE ExtractLoop(_, _, _, _, _)
Continue(ic, f, reader, idx, next) ==
    IF next.exc # "none" THEN next ELSE ExtractLoop(ic, f, reader, idx, next)

LoopBody(ic, f, reader, idx, row, st) ==
    IF row = <<>> THEN ExtractLoop(ic, f, reader, idx, [st EXCEPT !.index = idx])
    ELSE IF StartsWith(row[1], <<"#">>)
         THEN ExtractLoop(ic, f, reader, idx, [st EXCEPT !.index = idx])
    ELSE IF StartsWith(row[1], Dashes) THEN [st EXCEPT !.index = idx]
    ELSE Continue(ic, f, reader, idx, ExtractRow(ic, f, row, idx, st))

ExtractLoop(ic, f, reader, idx, st) ==
    IF idx >= Len(reader) THEN st
    ELSE LoopBody(ic, f, reader, idx + 1, reader[idx + 1], st)

Reversed(s) == [i \in 1..Len(s) |-> s[Len(s) + 1 - i]]
MetaGet(meta, key) == IF key \in DOMAIN meta THEN Some(meta[key]) ELSE None
MetaPop(meta, key) == [k \in (DOMAIN meta) \ {key} |-> meta[k]]

\* "Add a balance entry if possible" and "Remove the 'balance' metadata".
BalanceEntry(f, st, entry, balance) ==
    [meta |-> [filename |-> f.name, lineno |-> st.index],
     date |-> entry.date + 1, account |-> st.account,
     amount |-> Amount(The(balance))]

WithBalance(ic, f, st, ordered) ==
    IF "BALANCE" \in DOMAIN ic /\ ordered # <<>>
       /\ MetaGet(ordered[Len(ordered)].meta, "balance") # None
    THEN Append(ordered,
                BalanceEntry(f, st, ordered[Len(ordered)],
                             MetaGet(ordered[Len(ordered)].meta, "balance")))
    ELSE ordered

PopBalance(es) == [i \in 1..Len(es) |-> [es[i] EXCEPT !.meta = MetaPop(@, "balance")]]

\* "is_ascending = first_date < last_date" and the reversal.
Ordered(first_date, last_date, es) ==
    IF ~(first_date < last_date) THEN Reversed(es) ELSE es

FinishDated(ic, f, st, first_date, last_date) ==
    IF first_date.exc # "none" THEN Raise(first_date.exc)
    ELSE IF last_date.exc # "none" THEN Raise(last_date.exc)
    ELSE Ok(PopBalance(WithBalance(ic, f, st,
               Ordered(first_date.val, last_date.val, st.entries))))

\* The tail of extract, after the row loop.  get(None, Col.DATE) raises
\* TypeError when no data row was processed.
ExtractFinish(ic, f, st) ==
    IF st.first_row = None THEN Raise("TypeError")
    ELSE FinishDated(ic, f, st,
                     parse_date_liberally(Get(ic, The(st.first_row), "DATE")),
                     parse_date_liberally(Get(ic, The(st.last_row), "DATE")))

\* The rows the csv reader yields once the skipped lines and the header are
\* consumed.
RowsFrom(all, from) == SubSeq(all, from + 1, Len(all))
Reader(f, hdr) ==
    RowsFrom(strip_blank(f.lines), skip_lines + (IF hdr THEN 1 ELSE 0))

LoopStart == [first_row |-> None, last_row |-> None, index |-> 0,
              account |-> None, entries |-> <<>>, exc |-> "none"]

ExtractOutcome(ic, f, nc, st) ==
    [st |-> st, nc |-> nc,
     out |-> IF st.exc # "none" THEN Raise(st.exc) ELSE ExtractFinish(ic, f, st)]

ExtractNormalized(f, nc) ==
    IF nc.exc # "none" THEN [st |-> LoopStart, nc |-> nc, out |-> Raise(nc.exc)]
    ELSE ExtractOutcome(nc.val[1], f, nc,
                        ExtractLoop(nc.val[1], f, Reader(f, nc.val[2]), 0, LoopStart))

\* Importer.extract: the loop's final locals and the call's outcome.
extract(cfg, f) ==
    ExtractNormalized(f, normalize_config(cfg, f.lines, f.sniffed, skip_lines))

\* ------------------------------------------------------------ input files
\* The columns of a file, in the order the header lists them, and their names.
RoleOrder == <<"DATE", "PAYEE", "NARRATION", "ACCOUNT", "AMOUNT", "AMOUNT_DEBIT",
               "AMOUNT_CREDIT", "DRCR", "STATUS", "TYPE", "BALANCE">>
ColumnName(role) ==
    CASE role = "DATE" -> <<"t">> [] role = "PAYEE" -> <<"p">>
      [] role = "NARRATION" -> <<"n">> [] role = "ACCOUNT" -> <<"a">>
      [] role = "AMOUNT" -> <<"m">> [] role = "AMOUNT_DEBIT" -> <<"d">>
      [] role = "AMOUNT_CREDIT" -> <<"c">> [] role = "DRCR" -> <<"x">>
      [] role = "STATUS" -> <<"s">> [] role = "TYPE" -> <<"k">>
      [] role = "BALANCE" -> <<"b">>
RolesOf(S) == SelectSeq(RoleOrder, LAMBDA r : r \in S)
HeaderOf(S) == [i \in 1..Len(RolesOf(S)) |-> ColumnName(RolesOf(S)[i])]
ConfigByName(S) == [r \in S |-> StrField(ColumnName(r))]
ConfigByIndex(S) ==
    [r \in S |-> IntField(CHOOSE i \in 1..Len(RolesOf(S)) : RolesOf(S)[i] = r)]

BaseRoles == {"DATE", "PAYEE", "NARRATION", "ACCOUNT", "DRCR", "TYPE"}
CfgCombined == BaseRoles \cup {"AMOUNT"}
CfgSeparate == BaseRoles \cup {"AMOUNT_DEBIT", "AMOUNT_CREDIT"}
CfgBalance == CfgCombined \cup {"BALANCE"}

\* The rows over the columns `roles`, each cell drawn from cells[role].
RECURSIVE RowsOver(_, _)
RowsOver(roles, cells) ==
    IF roles = <<>> THEN {<<>>}
    ELSE {<<c>> \o r : c \in cells[Head(roles)], r \in RowsOver(Tail(roles), cells)}

AmountTexts == {<<>>, <<"0", ".", "0", "0">>, <<"1", "0", "0">>}
WideCells ==
    [DATE |-> {<<"1">>},
     PAYEE |-> {<<"p">>, <<" ", "r">>},
     NARRATION |-> {<<"f">>, <<"r">>},
     ACCOUNT |-> {<<>>, <<"l">>, <<"l", "-", "s">>, <<"l", "-", "s", "-", "y">>},
     AMOUNT |-> AmountTexts,
     AMOUNT_DEBIT |-> AmountTexts,
     AMOUNT_CREDIT |-> AmountTexts,
     DRCR |-> {<<>>, <<"o">>, <<"i">>, <<"/">>},
     TYPE |-> {<<>>, <<"k">>, <<"r">>}]
BalanceText == <<"5", "2", "3", ".", "1", "0">>
NarrowCells ==
    [DATE |-> {<<"1">>, <<"2">>, <<"3">>},
     PAYEE |-> {<<"p">>},
     NARRATION |-> {<<"f">>},
     ACCOUNT |-> {<<"l">>},
     AMOUNT |-> {<<"1", "0", "0">>},
     DRCR |-> {<<"o">>},
     TYPE |-> {<<>>},
     BALANCE |-> {<<>>, BalanceText}]
\* A row without an amount, a blank row, a comment row and the dash line.
EmptyAmountRow == <<(<<"2">>), <<"p">>, <<"f">>, <<"l">>, <<>>, <<"o">>, <<>>, BalanceText>>
CommentRow == <<(<<"#", "c">>)>>
DashRow == <<Dashes \o <<"-">> >>
NarrowRows ==
    RowsOver(RolesOf(CfgBalance), NarrowCells) \cup {EmptyAmountRow, <<>>, CommentRow, DashRow}

GarbageLine == <<(<<"g">>)>>
CsvFile(name, mimetype, header, body, sniffed) ==
    [name |-> name, mimetype |-> mimetype,
     lines |-> <<GarbageLine, header>> \o body, sniffed |-> sniffed]
GoodName == <<"a", "l", "1">>

\* One-row files over every cell combination of the two amount layouts.
WideInputs ==
    UNION {{<<ConfigByName(S),
              CsvFile(GoodName, "text/csv", HeaderOf(S), <<row>>, sn)>> :
               row \in RowsOver(RolesOf(S), WideCells), sn \in BOOLEAN} :
           S \in {CfgCombined, CfgSeparate}}

\* Files of up to MaxRows rows that differ in date, balance and row kind.
NarrowInputs ==
    {<<ConfigByName(CfgBalance),
       CsvFile(GoodName, "text/csv", HeaderOf(CfgBalance), body, TRUE)>> :
        body \in UNION {[1..n -> NarrowRows] : n \in 0..MaxRows}}

\* Candidate files for identification: type, name, header and mapping vary.
DefaultRow == <<(<<"1">>), <<"p">>, <<"f">>, <<"l">>, <<"1", "0", "0">>, <<"o">>, <<>> >>
IdentifyInputs ==
    {<<cfg, CsvFile(name, mimetype, header, <<DefaultRow>>, sn)>> :
        cfg \in {ConfigByName(CfgCombined), ConfigByIndex(CfgCombined),
                 [ConfigByIndex(CfgCombined) EXCEPT !["DRCR"] = StrField(<<"x">>)]},
        name \in {GoodName, <<"x", "/", "a", "l">>, <<"b">>, <<"a", "l", "/", "b">>},
        mimetype \in {"text/csv", "text/plain"},
        header \in {HeaderOf(CfgCombined), HeaderOf(CfgCombined \ {"DRCR"})},
        sn \in BOOLEAN}

InputFrom(S) == \E in \in S : config = in[1] /\ file = in[2]

\* ------------------------------------------------- the importer on one file
Idle ==
    /\ iconfig = <<>> /\ has_header = FALSE
    /\ first_row = None /\ last_row = None /\ index = 0 /\ account = None
    /\ entries = <<>>

Init ==
    /\ InputFrom(WideInputs) \/ InputFrom(NarrowInputs) \/ InputFrom(IdentifyInputs)
    /\ pc = "idle" /\ call = [fn |-> "none"] /\ ret = Ok(None)
    /\ Idle

Identify ==
    /\ pc = "idle"
    /\ call' = [fn |-> "identify"]
    /\ ret' = identify(config, file)
    /\ pc' = IF ret'.exc = "none" THEN "done" ELSE "raised"
    /\ UNCHANGED <<config, file, iconfig, has_header, first_row, last_row,
                   index, account, entries>>

\* The state extract leaves behind, r being its outcome.
ExtractApply(r) ==
    /\ ret' = r.out
    /\ iconfig' = IF r.nc.exc = "none" THEN r.nc.val[1] ELSE iconfig
    /\ has_header' = IF r.nc.exc = "none" THEN r.nc.val[2] ELSE has_header
    /\ first_row' = r.st.first_row
    /\ last_row' = r.st.last_row
    /\ index' = r.st.index
    /\ account' = r.st.account
    /\ entries' = r.st.entries
    /\ pc' = IF r.out.exc = "none" THEN "done" ELSE "raised"

Extract ==
    /\ pc = "idle"
    /\ call' = [fn |-> "extract"]
    /\ ExtractApply(extract(config, file))
    /\ UNCHANGED <<config, file>>

Next == Extract \/ Identify

Spec == Init /\ [][Next]_vars

\* ------------------------------------------------ the functions on their own
\* Calls of get_DRCR_status: every subset of the four roles it reads.
ClassifyColumn ==
    [DRCR |-> 1, STATUS |-> 2, AMOUNT_DEBIT |-> 3, AMOUNT_CREDIT |-> 4]
ClassifyRows ==
    {<<x, s, d, c>> : x \in {<<>>, <<"o">>, <<"i">>, <<"/">>},
                      s \in {<<>>, <<"y", "o">>, <<"y", "i">>, <<"s">>},
                      d \in {<<>>, <<"5">>}, c \in {<<>>, <<"7">>}}
ClassifyCalls ==
    {[fn |-> "get_DRCR_status", iconfig |-> [r \in S |-> ClassifyColumn[r]],
      row |-> row, drcr_dict |-> drcr_dict] :
        S \in SUBSET (DOMAIN ClassifyColumn), row \in ClassifyRows}

\* Calls of get_amounts: every subset of the three amount roles.
AmountColumn == [AMOUNT |-> 1, AMOUNT_DEBIT |-> 2, AMOUNT_CREDIT |-> 3]
AmountCellTexts ==
    {<<>>, <<"0", ".", "0", "0">>, <<"5", "0", ".", "0", "0">>,
     <<"Y", "1", ",", "0", "0", "0", ".", "0", "0">>, <<"-", "5">>, <<"x">>}
AmountCalls ==
    {[fn |-> "get_amounts", iconfig |-> [r \in S |-> AmountColumn[r]],
      row |-> <<a, d, c>>, drcr |-> drcr, allow_zero_amounts |-> az] :
        S \in SUBSET (DOMAIN AmountColumn), a \in AmountCellTexts,
        d \in AmountCellTexts, c \in AmountCellTexts, drcr \in Drcr,
        az \in BOOLEAN}

\* Calls of mapping_account: the entries below in every order, DEFAULT at every
\* position or absent, against every text of up to MaxTextLen letters.
TableEntries ==
    {<<DEFAULT, "Z">>, <<(<<"A", "|", "B">>), "X">>, <<(<<"A">>), "Y">>,
     <<(<<"C">>), "W">>}
Tables ==
    {t \in UNION {[1..n -> TableEntries] : n \in 0..Cardinality(TableEntries)} :
        \A i, j \in DOMAIN t : t[i] = t[j] => i = j}
Texts == UNION {[1..n -> {"A", "B", "C", "E"}] : n \in 0..MaxTextLen}
MappingCalls ==
    {[fn |-> "mapping_account", account_map |-> t, keyword |-> k] :
        t \in Tables, k \in Texts}

CallFrom(S) == \E c \in S : call = c

InitFn ==
    /\ CallFrom(ClassifyCalls) \/ CallFrom(AmountCalls) \/ CallFrom(MappingCalls)
    /\ pc = "call" /\ ret = Ok(None)
    /\ config = <<>> /\ file = <<>>
    /\ Idle

Return(r) ==
    /\ ret' = r
    /\ pc' = IF r.exc = "none" THEN "done" ELSE "raised"
    /\ UNCHANGED <<call, config, file, iconfig, has_header, first_row, last_row,
                   index, account, entries>>

CallGetDRCRStatus ==
    /\ pc = "call" /\ call.fn = "get_DRCR_status"
    /\ Return(get_DRCR_status(call.iconfig, call.row, call.drcr_dict))

CallGetAmounts ==
    /\ pc = "call" /\ call.fn = "get_amounts"
    /\ Return(get_amounts(call.iconfig, call.row, call.drcr,
                          call.allow_zero_amounts))

CallMappingAccount ==
    /\ pc = "call" /\ call.fn = "mapping_account"
    /\ Return(mapping_account(call.account_map, call.keyword))

NextFn == CallGetDRCRStatus \/ CallGetAmounts \/ CallMappingAccount

SpecFn == InitFn /\ [][NextFn]_vars

\* ------------------------------------------------------------------ claims
Returned(fn) == call.fn = fn /\ pc \in {"done", "raised"}
\* The numeric value of a cell that holds exactly one numeric token.
IsNumeric(cell) == cast_to_decimal(Some(cell)).exc = "none"
ValueOf(cell) == The(cast_to_decimal(Some(cell)).val)

\* C1: get_DRCR_status returns the direction chosen in this priority order:
\* (1) a mapped, non-empty DRCR cell is looked up in drcr_dict, a miss giving
\* UNCERTAINTY without the status column being consulted; (2) otherwise a
\* mapped STATUS cell is looked up, a miss giving UNCERTAINTY; (3) otherwise
\* CREDIT when a mapped credit cell is non-empty, else DEBIT when a mapped
\* debit cell is non-empty; (4) otherwise UNCERTAINTY.  A miss never raises.
C1_ClassifyPriority ==
    Returned("get_DRCR_status") =>
        LET ic == call.iconfig
            row == call.row
            dict == call.drcr_dict
            has(r) == r \in DOMAIN ic
            cell(r) == row[ic[r]]
            looked(text) == IF text \in DOMAIN dict THEN dict[text] ELSE UNCERTAINTY
        IN /\ ret.exc = "none"
           /\ (has("DRCR") /\ cell("DRCR") # <<>>) => ret.val = looked(cell("DRCR"))
           /\ (~(has("DRCR") /\ cell("DRCR") # <<>>) /\ has("STATUS"))
                  => ret.val = looked(cell("STATUS"))
           /\ (~(has("DRCR") /\ cell("DRCR") # <<>>) /\ ~has("STATUS"))
                  => ret.val =
                       IF has("AMOUNT_CREDIT") /\ cell("AMOUNT_CREDIT") # <<>>
                       THEN CREDIT
                       ELSE IF has("AMOUNT_DEBIT") /\ cell("AMOUNT_DEBIT") # <<>>
                       THEN DEBIT
                       ELSE UNCERTAINTY

\* C1 witness: the marker cell holds a text the table lacks while the status
\* cell holds one it knows, and the call returned UNCERTAINTY.
C1_Witness ==
    /\ Returned("get_DRCR_status")
    /\ DOMAIN call.iconfig = {"DRCR", "STATUS", "AMOUNT_DEBIT", "AMOUNT_CREDIT"}
    /\ call.row = <<(<<"/">>), <<"y", "o">>, <<"5">>, <<"7">> >>
    /\ ret = Ok(UNCERTAINTY)

\* C2: for a table with a DEFAULT entry, mapping_account returns the account
\* of the first non-DEFAULT key, in definition order, whose pattern matches
\* anywhere in the text, and the DEFAULT account when none matches; where
\* DEFAULT stands in the table makes no difference.  {"A|B": X, "A": Y,
\* DEFAULT: Z} with text "A" gives X.
C2_FirstMatchWins ==
    (Returned("mapping_account") /\ DEFAULT \in Keys(call.account_map)) =>
        LET t == call.account_map
            others == SelectSeq(t, LAMBDA e : e[1] # DEFAULT)
            alternatives(key) == Split(key, "|")
            occurs(a, text) ==
                \E i \in 1..(Len(text) + 1) :
                    /\ i + Len(a) - 1 <= Len(text)
                    /\ \A j \in 1..Len(a) : text[i + j - 1] = a[j]
            matches == {i \in 1..Len(others) :
                          \E n \in 1..Len(alternatives(others[i][1])) :
                              occurs(alternatives(others[i][1])[n], call.keyword)}
        IN /\ ret.exc = "none"
           /\ matches = {} => \E i \in 1..Len(t) : t[i][1] = DEFAULT /\ ret.val = t[i][2]
           /\ matches # {} =>
                \E i \in matches : ret.val = others[i][2] /\ \A j \in matches : i <= j
           /\ (others = << <<(<<"A", "|", "B">>), "X">>, <<(<<"A">>), "Y">> >>
               /\ call.keyword = <<"A">>) => ret.val = "X"

\* C2 witness: the table of the example with DEFAULT listed first, text "A",
\* and the call returned X.
C2_Witness ==
    /\ Returned("mapping_account")
    /\ call.account_map = << <<DEFAULT, "Z">>, <<(<<"A", "|", "B">>), "X">>,
                             <<(<<"A">>), "Y">> >>
    /\ call.keyword = <<"A">>
    /\ ret = Ok("X")

C5_ZeroAmountSkipped ==
    (/\ Returned("get_amounts")
     /\ ~call.allow_zero_amounts
     /\ LET ic == call.iconfig
            amount_roles == IF "AMOUNT" \in DOMAIN ic THEN {"AMOUNT"}
                            ELSE DOMAIN ic
        IN /\ amount_roles # {}
           /\ \A r \in amount_roles :
                /\ IsNumeric(call.row[ic[r]])
                /\ ValueOf(call.row[ic[r]]).m = 0)
    => ret = Ok(<<None, None>>)

\* C10: with separate debit and credit columns and no combined column,
\* get_amounts never raises on an empty cell: debit d alone gives (-d, None),
\* credit c alone gives (None, c), both give (-d, c), neither gives
\* (None, None).  (Cells are empty or hold a non-zero number.)
C10_SeparateColumnsTolerateEmpty ==
    (/\ Returned("get_amounts")
     /\ DOMAIN call.iconfig = {"AMOUNT_DEBIT", "AMOUNT_CREDIT"}
     /\ \A r \in DOMAIN call.iconfig :
          \/ call.row[call.iconfig[r]] = <<>>
          \/ /\ IsNumeric(call.row[call.iconfig[r]])
             /\ ValueOf(call.row[call.iconfig[r]]).m # 0) =>
        LET d == call.row[call.iconfig["AMOUNT_DEBIT"]]
            c == call.row[call.iconfig["AMOUNT_CREDIT"]]
        IN /\ ret.exc = "none"
           /\ ret.val = <<IF d = <<>> THEN None ELSE Some(DecNeg(ValueOf(d))),
                          IF c = <<>> THEN None ELSE Some(ValueOf(c))>>

\* The row a transaction of the output was built from, a cell of a row, and
\* how the row was classified.
RowOf(e) == Reader(file, has_header)[e.meta.lineno]
CellOf(row, role) == IF role \in DOMAIN iconfig THEN row[iconfig[role]] ELSE <<>>
DirectionOf(row) == get_DRCR_status(iconfig, row, drcr_dict).val
AssetsAccount(text) == mapping_account(account_map.assets, text).val
Extracted == Returned("extract") /\ pc = "done"
IsTransfer(row) ==
    /\ DirectionOf(row) = UNCERTAINTY
    /\ Len(Split(CellOf(row, "ACCOUNT"), "-")) = 2
\* The populated amount cells of a row in the order debit, credit; a combined
\* column counts as the debit side unless the row is CREDIT.
AmountSides(row) ==
    IF "AMOUNT" \in DOMAIN iconfig
    THEN IF CellOf(row, "AMOUNT") = <<>> THEN <<>>
         ELSE << <<IF DirectionOf(row) = CREDIT THEN "credit" ELSE "debit",
                   ValueOf(CellOf(row, "AMOUNT"))>> >>
    ELSE (IF CellOf(row, "AMOUNT_DEBIT") = <<>> THEN <<>>
          ELSE << <<"debit", ValueOf(CellOf(row, "AMOUNT_DEBIT"))>> >>)
         \o (IF CellOf(row, "AMOUNT_CREDIT") = <<>> THEN <<>>
             ELSE << <<"credit", ValueOf(CellOf(row, "AMOUNT_CREDIT"))>> >>)
\* The postings of a transfer row when the posting on the second token
\* carries sign(side) times the cell's value.
TransferExpected(row, sign(_)) ==
    LET tokens == Split(CellOf(row, "ACCOUNT"), "-")
        sides == AmountSides(row)
    IN [i \in 1..(2 * Len(sides)) |->
          IF i % 2 = 1
          THEN Posting(AssetsAccount(tokens[2]),
                       Some(Amount([m |-> sign(sides[(i + 1) \div 2][1])
                                            * sides[(i + 1) \div 2][2].m,
                                    e |-> sides[(i + 1) \div 2][2].e])))
          ELSE Posting(AssetsAccount(tokens[1]), None)]

\* C4 (as amended): for a row classified UNCERTAIN whose account label splits
\* on '-' into exactly two tokens "B-A", extract emits for each amount of the
\* row exactly two postings in this order: one on the assets-table account of
\* the second token A carrying the negation of the signed amount get_amounts
\* resolved, that is +a when the combined or the debit column supplied a and
\* -a when the credit column supplied it, then one on the assets-table
\* account of the first token B carrying no amount; no category lookup.
C4_TransferNegatesSigned ==
    Extracted =>
        \A k \in 1..Len(ret.val) :
            IsTransfer(RowOf(ret.val[k])) =>
                ret.val[k].postings =
                    TransferExpected(RowOf(ret.val[k]),
                                     LAMBDA side : IF side = "credit" THEN -1 ELSE 1)

\* C4 witness: separate columns both holding 100 on an UNCERTAIN row labelled
\* "l-s": +100 on the account of "s" for the debit column, -100 for the
\* credit column, each followed by the bare posting on the account of "l".
C4_Witness ==
    /\ Extracted
    /\ Len(ret.val) = 1
    /\ "AMOUNT_DEBIT" \in DOMAIN iconfig
    /\ IsTransfer(RowOf(ret.val[1]))
    /\ ret.val[1].postings =
         <<Posting("Liabilities:CreditCard:SFFB:0000",
                   Some(Amount([m |-> 100, e |-> 0]))),
           Posting("Assets:Wechat:MiniFund", None),
           Posting("Liabilities:CreditCard:SFFB:0000",
                   Some(Amount([m |-> -100, e |-> 0]))),
           Posting("Assets:Wechat:MiniFund", None)>>

\* C4 (as stated): for an UNCERTAIN row labelled "B-A" with amount a, the
\* posting on A carries -a and the posting on B nothing, whichever column
\* (combined, debit or credit) supplied the amount.
C4_TransferAlwaysNegative ==
    Extracted =>
        \A k \in 1..Len(ret.val) :
            IsTransfer(RowOf(ret.val[k])) =>
                ret.val[k].postings =
                    TransferExpected(RowOf(ret.val[k]), LAMBDA side : -1)

\* C6: for a DEBIT or CREDIT row the counter-account is searched in the credit
\* table iff the direction is CREDIT and payee+narration does not contain the
\* refund keyword, and in the debit table otherwise; the refund test does not
\* look at the type text, the search runs over payee+narration+type, and the
\* counter-account is a bare posting right after the amount posting on the
\* assets account.
C6_CounterAccountTable ==
    Extracted =>
        \A k \in 1..Len(ret.val) :
            LET e == ret.val[k]
                row == RowOf(e)
                text == Strip(CellOf(row, "PAYEE")) \o Strip(CellOf(row, "NARRATION"))
                refund == \E i \in 1..Len(text) :
                              SubSeq(text, i, i + Len(refund_keyword) - 1) = refund_keyword
                table == IF DirectionOf(row) = CREDIT /\ ~refund
                         THEN account_map.credit ELSE account_map.debit
                counter == mapping_account(table, text \o CellOf(row, "TYPE")).val
            IN DirectionOf(row) \in {DEBIT, CREDIT} =>
                 /\ Len(e.postings) = 2 * Len(AmountSides(row))
                 /\ \A i \in 1..Len(e.postings) :
                      IF i % 2 = 1
                      THEN /\ e.postings[i].account = AssetsAccount(CellOf(row, "ACCOUNT"))
                           /\ e.postings[i].units # None
                      ELSE e.postings[i] = Posting(counter, None)

\* C6 witness: a CREDIT row whose narration is the refund keyword and whose
\* type is "k" got its counter-account from the debit table.
C6_Witness ==
    /\ Extracted
    /\ Len(ret.val) = 1
    /\ DirectionOf(RowOf(ret.val[1])) = CREDIT
    /\ CellOf(RowOf(ret.val[1]), "NARRATION") = refund_keyword
    /\ CellOf(RowOf(ret.val[1]), "TYPE") = <<"k">>
    /\ Len(ret.val[1].postings) = 2
    /\ ret.val[1].postings[2] = Posting("Expenses:Transport:Taxi", None)

\* The date of a data row.
DateOf(row) == parse_date_liberally(Get(iconfig, The(row), "DATE")).val

\* C7: extract reverses the output exactly when the date of the first
\* processed data row is strictly later than that of the last; otherwise,
\* also when the two dates are equal, the transactions come in file order.
C7_ReversedOnlyWhenDescending ==
    Extracted =>
        ret.val = IF DateOf(first_row) > DateOf(last_row)
                  THEN Reversed(entries) ELSE entries

\* C8: when the mapping declares a BALANCE role, a transaction's balance cell
\* is captured, and a last transaction of the output with a captured balance
\* b is followed by exactly one Balance record dated one day later, for that
\* row's account label, with amount b.
C8_BalanceAppended ==
    (/\ Extracted
     /\ "BALANCE" \in DOMAIN iconfig
     /\ entries # <<>>
     /\ CellOf(RowOf(Ordered(DateOf(first_row), DateOf(last_row), entries)[Len(entries)]),
               "BALANCE") # <<>>) =>
        LET last == Ordered(DateOf(first_row), DateOf(last_row), entries)[Len(entries)]
        IN /\ Len(ret.val) = Len(entries) + 1
           /\ "amount" \in DOMAIN ret.val[Len(ret.val)]
           /\ ret.val[Len(ret.val)].date = last.date + 1
           /\ ret.val[Len(ret.val)].account = Some(CellOf(RowOf(last), "ACCOUNT"))
           /\ ret.val[Len(ret.val)].amount =
                Amount(ValueOf(CellOf(RowOf(last), "BALANCE")))

\* C9: identify answers with a boolean for every candidate file: true iff the
\* type is text/csv, the base name starts with the prefix and every declared
\* role resolves against the header; it answers false, and does not raise,
\* when a declared column name is missing from the header or there is no
\* header to look names up in.
C9_IdentifyIsBoolean ==
    Returned("identify") =>
        LET header == file.lines[skip_lines + 1]
            resolves(field) ==
                \/ field.t = "int"
                \/ /\ file.sniffed
                   /\ \E i \in 1..Len(header) : Strip(header[i]) = field.name
        IN /\ ret.exc = "none"
           /\ ret.val = (/\ file.mimetype = "text/csv"
                         /\ StartsWith(Basename(file.name), file_name_prefix)
                         /\ \A ft \in DOMAIN config : resolves(config[ft]))

====
